---- MODULE Spec2Model ----
(***************************************************************************)
(* Model of the OCR text extraction service (main.py): the process-wide    *)
(* Vision client handle set by the lifespan hook, and the three HTTP       *)
(* handlers GET /, GET /health and POST /extract-text together with the    *)
(* exception handlers that turn a raised HTTPException into a response.    *)
(*                                                                         *)
(* Conventions of the model:                                               *)
(*  - a filename is a sequence of one-character strings, so that           *)
(*    os.path.splitext (posixpath) and str.lower are computed;             *)
(*  - the uploaded bytes are represented by their length;                  *)
(*  - a message is the sequence of its whitespace-separated words;         *)
(*  - a confidence is counted in hundredths (0.95 is 95).                  *)
(***************************************************************************)
EXTENDS Integers, Sequences, FiniteSets, TLC

VARIABLES vision_client, started, req, reply, sent, resp

vars == <<vision_client, started, req, reply, sent, resp>>

(* ---------------- bounds of the checked instance ---------------- *)

MaxStem == 1
MaxAnnotations == 2
MaxElapsedMs == 1

(* ---------------- constants of main.py ---------------- *)

MAX_FILE_SIZE == 10 * 1024 * 1024

ALLOWED_CONTENT_TYPES == {"image/jpeg", "image/jpg"}

ALLOWED_EXTENSIONS_jpg_only == {".jpg"}

ALLOWED_EXTENSIONS == {".jpg", ".jpeg"}

CONFIDENCE_PLACEHOLDER == 95

None == "None"

Client == "ImageAnnotatorClient"

(* ---------------- inputs ---------------- *)

SeqsUpTo(S, n) == UNION {[1..k -> S] : k \in 0..n}

StemChars == {"a", ".", "/"}

Suffixes ==
  { <<>>,
    <<".", "j", "p", "g">>,
    <<".", "j", "p", "e", "g">>,
    <<".", "J", "P", "G">>,
    <<".", "p", "n", "g">> }

Filenames == {s \o x : s \in SeqsUpTo(StemChars, MaxStem), x \in Suffixes}

ContentTypes == {"image/jpeg", "image/jpg", "image/png"}

ContentLengths == {0, 1, MAX_FILE_SIZE - 1, MAX_FILE_SIZE, MAX_FILE_SIZE + 1}

UploadFiles ==
  [content_type : ContentTypes, filename : Filenames, content_len : ContentLengths]

Descriptions == {"", "Hello"}

ErrorMessages == {"", "Some API error"}

VisionResponses ==
  [error_message : ErrorMessages,
   text_annotations : SeqsUpTo([description : Descriptions], MaxAnnotations)]

(* ---------------- string helpers ---------------- *)

lower(c) ==
  CASE c = "J" -> "j"
    [] c = "P" -> "p"
    [] c = "G" -> "g"
    [] OTHER -> c

Lower(s) == [i \in 1..Len(s) |-> lower(s[i])]

RECURSIVE Join(_)
Join(s) == IF s = <<>> THEN "" ELSE Head(s) \o Join(Tail(s))

\* str.rfind: the greatest index holding ch, 0 when there is none
\* (indices are 1-based here, so 0 plays the role of Python's -1)
rfind(p, ch) ==
  LET hits == {i \in 1..Len(p) : p[i] = ch}
  IN IF hits = {} THEN 0 ELSE CHOOSE i \in hits : \A j \in hits : j <= i

\* os.path.splitext(p)[1] of posixpath: the text from the last dot of the
\* last path component, unless only dots precede it in that component
splitext_ext(p) ==
  LET sepIndex == rfind(p, "/")
      dotIndex == rfind(p, ".")
  IN IF dotIndex > sepIndex
        /\ \E k \in (sepIndex + 1)..(dotIndex - 1) : p[k] # "."
     THEN SubSeq(p, dotIndex, Len(p))
     ELSE <<>>

(* ---------------- exceptions and their responses ---------------- *)

NoException == [status_code |-> 0, detail |-> <<>>]

HTTPException(status_code, detail) == [status_code |-> status_code, detail |-> detail]

\* validate_image: the first failing check raises
validate_image_extension_first(file) ==
  LET extension == Join(Lower(splitext_ext(file.filename)))
  IN IF file.filename # <<>> /\ extension \notin ALLOWED_EXTENSIONS
     THEN HTTPException(400,
            <<"Invalid", "file", "extension.", "Only", ".jpg", "and", ".jpeg",
              "are", "supported.", "Received:", extension>>)
     ELSE IF file.content_type \notin ALLOWED_CONTENT_TYPES
     THEN HTTPException(400,
            <<"Invalid", "file", "format.", "Only", "JPG/JPEG", "images", "are",
              "supported.", "Received:", file.content_type>>)
     ELSE IF file.filename = <<>>
     THEN HTTPException(400, <<"Filename", "is", "required">>)
     ELSE NoException

validate_image(file) ==
  IF file.content_type \notin ALLOWED_CONTENT_TYPES
  THEN HTTPException(400,
         <<"Invalid", "file", "format.", "Only", "JPG/JPEG", "images", "are",
           "supported.", "Received:", file.content_type>>)
  ELSE IF file.filename = <<>>
  THEN HTTPException(400, <<"Filename", "is", "required">>)
  ELSE LET extension == Join(Lower(splitext_ext(file.filename)))
       IN IF extension \notin ALLOWED_EXTENSIONS
          THEN HTTPException(400,
                 <<"Invalid", "file", "extension.", "Only", ".jpg", "and", ".jpeg",
                   "are", "supported.", "Received:", extension>>)
          ELSE NoException

\* the size guard of extract_text
SizeTooLarge_ge(file_size) == file_size >= MAX_FILE_SIZE

SizeTooLarge(file_size) == file_size > MAX_FILE_SIZE

\* the guard clauses of extract_text between the read and the OCR call
check_file_size(file_size) ==
  IF SizeTooLarge(file_size)
  THEN HTTPException(413, <<"File", "too", "large.", "Maximum", "size", "is", "10MB">>)
  ELSE IF file_size = 0
  THEN HTTPException(400, <<"Empty", "file", "uploaded">>)
  ELSE NoException

\* the client guard of extract_text_from_image
ClientUnavailable_unchecked(vc) == FALSE

ClientUnavailable(vc) == vc = None

\* extract_text_from_image up to the call of the provider
before_text_detection(vc, image_content) ==
  IF ClientUnavailable(vc)
  THEN HTTPException(503, <<"Vision", "API", "service", "unavailable">>)
  ELSE IF image_content = 0
  THEN HTTPException(400, <<"Empty", "image", "content">>)
  ELSE NoException

\* vision_client.text_detection(image=image): one call carrying the bytes
text_detection_retried(calls, image_content) ==
  Append(Append(calls, image_content), image_content)

text_detection(calls, image_content) == Append(calls, image_content)

\* response.error.message is truthy
ProviderFailed_unless_texts(response) ==
  response.error_message # "" /\ response.text_annotations = <<>>

ProviderFailed(response) == response.error_message # ""

\* the result returned when there are no annotations
EmptyResult_placeholder == [text |-> "", confidence |-> CONFIDENCE_PLACEHOLDER]

EmptyResult == [text |-> "", confidence |-> 0]

\* texts[0].description
FirstDescription_last(texts) == texts[Len(texts)].description

FirstDescription(texts) == texts[1].description

\* extract_text_from_image after the call of the provider
after_text_detection(response) ==
  IF ProviderFailed(response)
  THEN [exc |-> HTTPException(500,
                  <<"Failed", "to", "process", "image", "with", "Vision", "API">>),
        result |-> EmptyResult]
  ELSE LET texts == response.text_annotations
       IN IF texts = <<>>
          THEN [exc |-> NoException, result |-> EmptyResult]
          ELSE LET extracted_text == FirstDescription(texts)
               IN [exc |-> NoException,
                   result |-> [text |-> extracted_text,
                               confidence |-> IF extracted_text # ""
                                              THEN CONFIDENCE_PLACEHOLDER
                                              ELSE 0]]

\* the response to a raised HTTPException: the handler registered for 413,
\* and for every other status the framework's body holding the detail alone
ExceptionResponse(exc) ==
  IF exc.status_code = 413
  THEN [kind |-> "extract-text",
        status |-> 413,
        body |-> [success |-> FALSE,
                  error |-> <<"Payload", "too", "large">>,
                  detail |-> <<"File", "size", "exceeds", "10MB", "limit">>,
                  processing_time_ms |-> 0]]
  ELSE [kind |-> "extract-text",
        status |-> exc.status_code,
        body |-> [detail |-> exc.detail]]

SuccessResponse(image, file_size, result, processing_time_ms) ==
  [kind |-> "extract-text",
   status |-> 200,
   body |-> [success |-> TRUE,
             text |-> result.text,
             confidence |-> result.confidence,
             processing_time_ms |-> processing_time_ms,
             metadata |-> [filename |-> image.filename,
                           file_size_bytes |-> file_size,
                           content_type |-> image.content_type]]]

\* the vision_api field of GET /health
HealthVisionStatus_swapped(vc) == IF vc # None THEN "unavailable" ELSE "healthy"

HealthVisionStatus(vc) == IF vc # None THEN "healthy" ELSE "unavailable"

(* ---------------- state machine ---------------- *)

NoRequest == [content_type |-> "", filename |-> <<>>, content_len |-> 0]

NoReply == [error_message |-> "", text_annotations |-> <<>>]

NoResponse == [kind |-> "none", status |-> 0, body |-> [none |-> TRUE]]

Init ==
  /\ vision_client = None
  /\ started = FALSE
  /\ req = NoRequest
  /\ reply = NoReply
  /\ sent = <<>>
  /\ resp = NoResponse

\* the startup half of lifespan: the client is constructed, or the
\* construction raises and the handle is None
Lifespan ==
  /\ ~started
  /\ started' = TRUE
  /\ \E constructed \in BOOLEAN :
       vision_client' = IF constructed THEN Client ELSE None
  /\ UNCHANGED <<req, reply, sent, resp>>

Root ==
  /\ started
  /\ resp' = [kind |-> "root",
              status |-> 200,
              body |-> [service |-> "OCR Text Extraction API",
                        status |-> "running",
                        version |-> "1.0.0",
                        endpoints |-> [extract_text |-> "/extract-text (POST)",
                                       health |-> "/health (GET)"]]]
  /\ req' = NoRequest
  /\ reply' = NoReply
  /\ sent' = <<>>
  /\ UNCHANGED <<vision_client, started>>

Health ==
  /\ started
  /\ \E now \in 0..MaxElapsedMs :
       resp' = [kind |-> "health",
                status |-> 200,
                body |-> [status |-> "healthy",
                          vision_api |-> HealthVisionStatus(vision_client),
                          timestamp |-> now]]
  /\ req' = NoRequest
  /\ reply' = NoReply
  /\ sent' = <<>>
  /\ UNCHANGED <<vision_client, started>>

\* POST /extract-text
ExtractText ==
  /\ started
  /\ \E image \in UploadFiles :
       /\ req' = image
       /\ LET invalid == validate_image(image)
              image_content == image.content_len
              file_size == image_content
              bad_size == check_file_size(file_size)
              no_call == before_text_detection(vision_client, image_content)
          IN IF invalid # NoException
             THEN resp' = ExceptionResponse(invalid) /\ sent' = <<>> /\ reply' = NoReply
             ELSE IF bad_size # NoException
             THEN resp' = ExceptionResponse(bad_size) /\ sent' = <<>> /\ reply' = NoReply
             ELSE IF no_call # NoException
             THEN resp' = ExceptionResponse(no_call) /\ sent' = <<>> /\ reply' = NoReply
             ELSE \E response \in VisionResponses, elapsed \in 0..MaxElapsedMs :
                    LET outcome == after_text_detection(response)
                    IN /\ sent' = text_detection(<<>>, image_content)
                       /\ reply' = response
                       /\ resp' = IF outcome.exc # NoException
                                  THEN ExceptionResponse(outcome.exc)
                                  ELSE SuccessResponse(image, file_size,
                                                       outcome.result, elapsed)
  /\ UNCHANGED <<vision_client, started>>

Next == Lifespan \/ Root \/ Health \/ ExtractText

Spec == Init /\ [][Next]_vars

(* ---------------- vocabulary of the properties ---------------- *)

Mentions(detail, word) == \E i \in DOMAIN detail : detail[i] = word

EndsWith(s, suffix) ==
  /\ Len(s) >= Len(suffix)
  /\ SubSeq(s, Len(s) - Len(suffix) + 1, Len(s)) = suffix

IsExtract == resp.kind = "extract-text"

TenMB == 10 * 1024 * 1024

ContentTypeSupported == req.content_type \in {"image/jpeg", "image/jpg"}

FilenameMissing == req.filename = <<>>

ExtensionSupported ==
  Join(Lower(splitext_ext(req.filename))) \in {".jpg", ".jpeg"}

PassesFormatChecks == ContentTypeSupported /\ ~FilenameMissing /\ ExtensionSupported

PassesAllChecks ==
  PassesFormatChecks /\ req.content_len > 0 /\ req.content_len <= TenMB

ProviderCalled == sent # <<>>

\* the number of the first violated check, 0 when none is violated
FirstViolated ==
  IF ~ContentTypeSupported THEN 1
  ELSE IF FilenameMissing THEN 2
  ELSE IF ~ExtensionSupported THEN 3
  ELSE IF req.content_len > TenMB THEN 4
  ELSE IF req.content_len = 0 THEN 5
  ELSE 0

CheckStatus == <<400, 400, 400, 413, 400>>

CheckMessage ==
  << <<"Invalid", "file", "format.">>,
     <<"Filename", "is", "required">>,
     <<"Invalid", "file", "extension.">>,
     <<"File", "size", "exceeds">>,
     <<"Empty", "file", "uploaded">> >>

\* the final dot of the name is preceded, within the last path component,
\* by at least one character that is not a dot
HasStemBeforeFinalDot(name) ==
  LET dot == rfind(name, ".")
  IN \E j \in 1..(dot - 1) :
       /\ name[j] # "."
       /\ \A m \in j..(dot - 1) : name[m] # "/"

EndsInJpgOrJpeg(name) ==
  \/ EndsWith(name, <<".", "j", "p", "g">>)
  \/ EndsWith(name, <<".", "j", "p", "e", "g">>)

MetadataEchoesUpload ==
  /\ resp.status = 200
  /\ resp.body.success = TRUE
  /\ resp.body.metadata.filename = req.filename
  /\ resp.body.metadata.file_size_bytes = req.content_len
  /\ resp.body.metadata.content_type = req.content_type

(* ---------------- properties ---------------- *)

\* C1: the five checks of POST /extract-text are applied in the order
\* content-type, filename, extension, larger than 10MB, empty; the response
\* carries the status and the message of the first violated check only, the
\* five messages are pairwise distinct, and nothing is asked of the OCR
\* client or the provider unless all five pass.
C1_FirstFailingCheckWins ==
  /\ \A i, j \in 1..5 : i # j => CheckMessage[i] # CheckMessage[j]
  /\ (IsExtract /\ FirstViolated # 0) =>
       /\ resp.status = CheckStatus[FirstViolated]
       /\ SubSeq(resp.body.detail, 1, 3) = CheckMessage[FirstViolated]
       /\ resp.status # 503
       /\ ~ProviderCalled

C1_Witness ==
  /\ IsExtract
  /\ ~ContentTypeSupported
  /\ ~FilenameMissing
  /\ ~ExtensionSupported
  /\ req.content_len > TenMB
  /\ vision_client = None
  /\ resp.status = 400
  /\ Mentions(resp.body.detail, "format.")

\* C2: every failed POST /extract-text is answered with the failure envelope
\* (success false, an error category, a detail, processing_time_ms 0) and
\* with status 400 for a validation failure, 413 for a payload that is too
\* large, 500 for a provider error and 503 for an unavailable client.
C2_FailureEnvelope ==
  (IsExtract /\ resp.status # 200) =>
    /\ {"success", "error", "detail", "processing_time_ms"} \subseteq DOMAIN resp.body
    /\ resp.body.success = FALSE
    /\ resp.body.processing_time_ms = 0
    /\ resp.status = (IF FirstViolated = 4 THEN 413
                      ELSE IF FirstViolated # 0 THEN 400
                      ELSE IF vision_client = None THEN 503
                      ELSE 500)

\* C3 as stated: a JPEG content-type, a filename ending in .jpg or .jpeg, a
\* size between 1 byte and 10MB, an initialized client and no provider error
\* give 200 with success true and metadata equal to the upload's filename,
\* byte length and content-type.
C3_AnyNameEndingInJpg ==
  ( /\ IsExtract
    /\ req.content_type = "image/jpeg"
    /\ EndsInJpgOrJpeg(req.filename)
    /\ req.content_len >= 1
    /\ req.content_len <= TenMB
    /\ vision_client # None
    /\ reply.error_message = "" )
  => MetadataEchoesUpload

\* C3 as amended: the same, for a filename whose final .jpg or .jpeg is
\* preceded in the last path component by a character that is not a dot.
C3_ValidJpegSucceeds ==
  ( /\ IsExtract
    /\ req.content_type = "image/jpeg"
    /\ EndsInJpgOrJpeg(req.filename)
    /\ HasStemBeforeFinalDot(req.filename)
    /\ req.content_len >= 1
    /\ req.content_len <= TenMB
    /\ vision_client # None
    /\ reply.error_message = "" )
  => MetadataEchoesUpload

C3_Witness ==
  /\ IsExtract
  /\ req.content_type = "image/jpeg"
  /\ req.filename = <<"a", ".", "j", "p", "e", "g">>
  /\ req.content_len = TenMB
  /\ ProviderCalled
  /\ reply.error_message = ""
  /\ MetadataEchoesUpload

\* C4: a payload that passes the content-type, filename and extension checks
\* gets 413 exactly when it is longer than 10MB (10MB itself is accepted,
\* 10MB+1 is not), whether or not the OCR client is initialized.
C4_TooLargeIffOverTenMB ==
  (IsExtract /\ PassesFormatChecks) =>
    (resp.status = 413 <=> req.content_len > TenMB)

C4_Witness ==
  /\ IsExtract
  /\ PassesFormatChecks
  /\ req.content_len = TenMB + 1
  /\ vision_client = None
  /\ resp.status = 413

\* C5: with the OCR client never initialized, every upload that passes
\* validation gets 503 with a detail mentioning "unavailable" and nothing is
\* sent to the provider; the condition lasts: once serving without a client,
\* the process stays without a client.
C5_UninitializedClientIs503 ==
  /\ []( (IsExtract /\ vision_client = None /\ PassesAllChecks) =>
           /\ resp.status = 503
           /\ Mentions(resp.body.detail, "unavailable")
           /\ ~ProviderCalled )
  /\ [][(started /\ vision_client = None) => vision_client' = None]_vars

C5_Witness ==
  /\ IsExtract
  /\ vision_client = None
  /\ PassesAllChecks
  /\ resp.status = 503

\* C6: a provider response with a non-empty error message gives 500 and
\* never a 200, whatever result list the response carries.
C6_ProviderErrorIs500 ==
  (IsExtract /\ ProviderCalled /\ reply.error_message # "") => resp.status = 500

C6_Witness ==
  /\ IsExtract
  /\ ProviderCalled
  /\ reply.error_message # ""
  /\ reply.text_annotations # <<>>
  /\ resp.status = 500

\* C7: a provider response with no error message and an empty result list
\* gives 200 with success true, text "" and confidence 0.0.
C7_NoAnnotationsIsEmptySuccess ==
  (IsExtract /\ ProviderCalled /\ reply.error_message = ""
     /\ reply.text_annotations = <<>>) =>
    /\ resp.status = 200
    /\ resp.body.success = TRUE
    /\ resp.body.text = ""
    /\ resp.body.confidence = 0

C7_Witness ==
  /\ IsExtract
  /\ ProviderCalled
  /\ reply.error_message = ""
  /\ reply.text_annotations = <<>>
  /\ resp.status = 200

\* C8 as stated: a provider response with no error message and a non-empty
\* result list gives the text of the first entry and the confidence 0.95,
\* for every such list.
C8_AlwaysPlaceholder ==
  (IsExtract /\ ProviderCalled /\ reply.error_message = ""
     /\ reply.text_annotations # <<>>) =>
    /\ resp.body.text = reply.text_annotations[1].description
    /\ resp.body.confidence = 95

\* C8 as amended: the text is the text of the first entry; the confidence is
\* 0.95 when that text is not empty and 0.0 when it is empty.
C8_FirstEntryText ==
  (IsExtract /\ ProviderCalled /\ reply.error_message = ""
     /\ reply.text_annotations # <<>>) =>
    /\ resp.status = 200
    /\ resp.body.text = reply.text_annotations[1].description
    /\ resp.body.confidence = (IF reply.text_annotations[1].description # ""
                               THEN 95 ELSE 0)

C8_Witness ==
  /\ IsExtract
  /\ ProviderCalled
  /\ reply.error_message = ""
  /\ Len(reply.text_annotations) >= 2
  /\ reply.text_annotations[1].description = "Hello"
  /\ reply.text_annotations[2].description = ""
  /\ resp.body.text = "Hello"
  /\ resp.body.confidence = 95

\* C9: the readiness of the OCR client is set once, at startup, and no
\* request changes it; GET /health always answers 200 with "healthy" when
\* the client was initialized and "unavailable" otherwise.
C9_ReadinessSetOnce ==
  [][ /\ started => (started' /\ vision_client' = vision_client)
      /\ resp'.kind = "health" =>
           /\ resp'.status = 200
           /\ resp'.body.vision_api =
                (IF vision_client = Client THEN "healthy" ELSE "unavailable") ]_vars

C9_Witness ==
  /\ resp.kind = "health"
  /\ vision_client = None
  /\ resp.body.vision_api = "unavailable"

\* C10: a POST /extract-text request sends at most one call to the provider:
\* exactly one when the upload passes every check and the client is
\* initialized, none otherwise; a provider error ends the request after that
\* one call.
C10_AtMostOneProviderCall ==
  IsExtract =>
    /\ Len(sent) <= 1
    /\ Len(sent) = 1 <=> (PassesAllChecks /\ vision_client # None)
    /\ resp.status = 500 => Len(sent) = 1

C10_Witness ==
  /\ IsExtract
  /\ resp.status = 500
  /\ reply.error_message # ""
  /\ Len(sent) = 1

====
